---- MODULE Spec2Model ----
(***************************************************************************)
(* Falcon8 device-access layer (src-tauri/src/falcon8/mod.rs).             *)
(*                                                                         *)
(* Three operations are modelled, each as a small state machine whose      *)
(* steps are the calls it makes into the USB stack (rusb / libusb):        *)
(*   Falcon8::new / open_devices        enumeration, one step per device   *)
(*   find_readable_endpoints            the descriptor walk (pure)         *)
(*   get_report                         detach, claim, transfer, release,  *)
(*                                      "reattach"                         *)
(* plus a harness that calls detach_kernel_driver and then                 *)
(* reattach_kernel_driver back to back.                                    *)
(*                                                                         *)
(* The USB stack is the environment: every call may fail, and the device   *)
(* may be unplugged between any two calls of get_report.                   *)
(***************************************************************************)
EXTENDS Naturals, Integers, Sequences, FiniteSets, TLC

VARIABLES
    op,         \* operation in progress: "idle", "new", "find", "report", "roundtrip"
    pc,         \* position inside the operation
    identity,   \* <<vid, pid>> passed to open_devices
    devices,    \* the device list context.devices() returned
    idx,        \* loop index (open_devices' device loop, release_interfaces' loop)
    sessions,   \* open_devices' `result`: indices of the devices it opened
    cfg,        \* configuration descriptor 0 of the session's device
    endpoint,   \* get_report's `endpoint`
    kdriver,    \* interface numbers a kernel driver is bound to
    kdriver0,   \* kdriver when the operation began
    claimed,    \* interface numbers claimed through this handle
    connected,  \* the device is still plugged in
    avail,      \* bytes of report the device offered in the data stage
    size,       \* get_report's `size`
    data,       \* get_report's `data`
    result,     \* the operation's return value
    trace       \* the handle/device calls issued so far, with their outcome

vars == <<op, pc, identity, devices, idx, sessions, cfg, endpoint, kdriver,
          kdriver0, claimed, connected, avail, size, data, result, trace>>

----------------------------------------------------------------------------
(* Bounds of the model.                                                    *)

MaxDevices == 3     \* devices visible to the host
MaxIfaces == 2      \* interfaces of configuration 0
MaxReport == 2      \* bytes of report a device may offer

AltCounts == {1, 2}         \* alternate settings per interface
EpCounts == {0, 1, 2}       \* endpoints per alternate setting
ConfigValues == {1, 2}      \* bConfigurationValue of configuration 0
UsbIds == {1, 2}            \* vendor / product id values

----------------------------------------------------------------------------
(* Result<T>: Ok(v) or Err(e); a panic unwinds out of the operation.       *)

Ok(v) == [tag |-> "Ok", err |-> "", val |-> v]
Err(e) == [tag |-> "Err", err |-> e, val |-> <<>>]
Panic == [tag |-> "Panic", err |-> "index out of bounds", val |-> <<>>]
NoResult == [tag |-> "None", err |-> "", val |-> <<>>]

Min(a, b) == IF a <= b THEN a ELSE b

----------------------------------------------------------------------------
(* Configuration descriptors.  A configuration is a sequence of            *)
(* interfaces, an interface a sequence of alternate settings               *)
(* (`descriptors`), a setting a sequence of endpoint addresses.            *)

IfaceNumber(i) == i - 1
EpAddress(i, j, k) == 128 + 16 * (i - 1) + 4 * (j - 1) + k

IfaceShapes == UNION {[1..m -> EpCounts] : m \in AltCounts}
Shapes == UNION {[1..n -> IfaceShapes] : n \in 0..MaxIfaces}

MkSetting(shape, i, j) ==
    [interface_number |-> IfaceNumber(i),
     setting_number |-> j - 1,
     endpoints |-> [k \in 1..shape[i][j] |-> EpAddress(i, j, k)]]

MkInterface(shape, i) ==
    [descriptors |-> [j \in 1..Len(shape[i]) |-> MkSetting(shape, i, j)]]

MkConfig(cv, shape) ==
    [number |-> cv,
     interfaces |-> [i \in 1..Len(shape) |-> MkInterface(shape, i)]]

Layouts == {MkConfig(cv, s) : cv \in ConfigValues, s \in Shapes}

NoConfig == [number |-> 0, interfaces |-> <<>>]

\* rusb Interface::number(): bInterfaceNumber of the first alternate setting
InterfaceNumber(iface) == iface.descriptors[1].interface_number

InterfaceNumbers(c) ==
    {InterfaceNumber(c.interfaces[i]) : i \in 1..Len(c.interfaces)}

----------------------------------------------------------------------------
(* find_readable_endpoints: the three nested loops, outermost first.       *)

Endpoint(c, d, k) ==
    [config |-> c.number,
     iface |-> d.interface_number,
     setting |-> d.setting_number,
     address |-> d.endpoints[k]]

NoEndpoint == [config |-> 0, iface |-> 0, setting |-> 0, address |-> 0]

\* for endpoint_desc in interface_desc.endpoint_descriptors() { push }
RECURSIVE PushEndpointsReversed(_, _, _, _)
PushEndpointsReversed(acc, c, d, k) ==
    IF k > Len(d.endpoints) THEN acc
    ELSE PushEndpointsReversed(<<Endpoint(c, d, k)>> \o acc, c, d, k + 1)

RECURSIVE PushEndpoints(_, _, _, _)
PushEndpoints(acc, c, d, k) ==
    IF k > Len(d.endpoints) THEN acc
    ELSE PushEndpoints(Append(acc, Endpoint(c, d, k)), c, d, k + 1)

\* for interface_desc in interface.descriptors() { ... }
RECURSIVE WalkDescriptors(_, _, _, _)
WalkDescriptors(acc, c, iface, j) ==
    IF j > Len(iface.descriptors) THEN acc
    ELSE WalkDescriptors(PushEndpoints(acc, c, iface.descriptors[j], 1),
                         c, iface, j + 1)

\* for interface in config_desc.interfaces() { ... }
RECURSIVE WalkInterfaces(_, _, _)
WalkInterfaces(acc, c, i) ==
    IF i > Len(c.interfaces) THEN acc
    ELSE WalkInterfaces(WalkDescriptors(acc, c, c.interfaces[i], 1), c, i + 1)

\* Err(_) => return Err(rusb::Error::NoDevice)
ConfigErrorPassedOn(e) == e

ConfigError(e) == "NoDevice"

\* rd is what self.device.config_descriptor(0) returned
FindReadableEndpoints(rd) ==
    IF rd.tag = "Err" THEN Err(ConfigError(rd.err))
    ELSE Ok(WalkInterfaces(<<>>, rd.val, 1))

\* outcomes of device.config_descriptor(0) for a device whose configuration
\* descriptor 0 is c
ConfigReadErrors == {"NotFound", "Io"}
ConfigDescriptor(c) == {Ok(c)} \cup {Err(e) : e \in ConfigReadErrors}

----------------------------------------------------------------------------
(* The state before any operation is called.                               *)

Init ==
    /\ op = "idle"
    /\ pc = "idle"
    /\ identity = <<0, 0>>
    /\ devices = <<>>
    /\ idx = 0
    /\ sessions = <<>>
    /\ cfg = NoConfig
    /\ endpoint = NoEndpoint
    /\ kdriver = {}
    /\ kdriver0 = {}
    /\ claimed = {}
    /\ connected = TRUE
    /\ avail = 0
    /\ size = 0
    /\ data = <<>>
    /\ result = NoResult
    /\ trace = <<>>

\* one call into the USB stack: its name, the interface number (device index
\* for open, descriptor index for config_descriptor) and how it ended
Call(name, iface, outcome) ==
    [call |-> name, iface |-> iface, ok |-> outcome = "Ok",
     err |-> IF outcome = "Ok" THEN "" ELSE outcome]

HandleCalls ==
    {"kernel_driver_active", "detach_kernel_driver", "claim_interface",
     "read_control", "release_interface"}

\* the operation returns r
Return(r) ==
    /\ pc' = "done"
    /\ result' = r

\* the call device.config_descriptor(0) that returned rd
ConfigCall(rd) ==
    Call("config_descriptor", 0, IF rd.tag = "Ok" THEN "Ok" ELSE rd.err)

----------------------------------------------------------------------------
(* find_readable_endpoints, called on a session whose device has           *)
(* configuration descriptor c.                                             *)

FindStart ==
    /\ op = "idle"
    /\ \E c \in Layouts :
        /\ cfg' = c
        /\ op' = "find"
        /\ pc' = "find"
    /\ UNCHANGED <<identity, devices, idx, sessions, endpoint, kdriver, kdriver0,
                   claimed, connected, avail, size, data, result, trace>>

FindEndpoints ==
    /\ op = "find"
    /\ pc = "find"
    /\ \E rd \in ConfigDescriptor(cfg) :
        /\ trace' = Append(trace, ConfigCall(rd))
        /\ Return(FindReadableEndpoints(rd))
    /\ UNCHANGED <<op, identity, devices, idx, sessions, cfg, endpoint, kdriver,
                   kdriver0, claimed, connected, avail, size, data>>

NextFind == FindStart \/ FindEndpoints

----------------------------------------------------------------------------
(* Falcon8::new and open_devices.                                          *)

\* a device of the list: whether its descriptor can be read, the ids the
\* descriptor holds, whether device.open() succeeds
NoDescriptor == [desc |-> "Err", vid |-> 0, pid |-> 0, open |-> "Err"]
DeviceKinds ==
    {NoDescriptor} \cup
    [desc : {"Ok"}, vid : UsbIds, pid : UsbIds, open : {"Ok", "Err"}]
DeviceLists == UNION {[1..n -> DeviceKinds] : n \in 0..MaxDevices}

ContextErrors == {"Other"}      \* Context::new()?
ListErrors == {"NoMem"}         \* context.devices()?

\* device_desc.vendor_id() == vid && device_desc.product_id() == pid
MatchesVendorOnly(d, id) == d.vid = id[1]

Matches(d, id) == d.vid = id[1] /\ d.pid = id[2]

\* if devices.is_empty() { return Err(NotFound) }  Ok(devices)
NewResultAlwaysOk(opened) == Ok(opened)

NewResult(opened) ==
    IF opened = <<>> THEN Err("NotFound") ELSE Ok(opened)

\* `continue` after a descriptor that cannot be read; i is the loop index,
\* n the length of the list; the value is the next index
AfterDescriptorErrorBreak(i, n) == n + 1

AfterDescriptorError(i, n) == i + 1

\* `result` after device.open() returned outcome for device i
AfterOpen(opened, i, outcome) ==
    IF outcome = "Ok" THEN Append(opened, i) ELSE opened

NewStart ==
    /\ op = "idle"
    /\ \E vid \in UsbIds, pid \in UsbIds : identity' = <<vid, pid>>
    /\ op' = "new"
    /\ pc' = "context"
    /\ UNCHANGED <<devices, idx, sessions, cfg, endpoint, kdriver, kdriver0,
                   claimed, connected, avail, size, data, result, trace>>

\* let mut context = Context::new()?;
NewContext ==
    /\ op = "new"
    /\ pc = "context"
    /\ \/ pc' = "devices" /\ UNCHANGED result
       \/ \E e \in ContextErrors : Return(Err(e))
    /\ UNCHANGED <<op, identity, devices, idx, sessions, cfg, endpoint, kdriver,
                   kdriver0, claimed, connected, avail, size, data, trace>>

\* let devices = context.devices()?;  let mut result = Vec::new();
ListDevices ==
    /\ op = "new"
    /\ pc = "devices"
    /\ \/ \E l \in DeviceLists :
            /\ devices' = l
            /\ idx' = 1
            /\ pc' = "open_loop"
            /\ UNCHANGED result
       \/ /\ \E e \in ListErrors : Return(Err(e))
          /\ UNCHANGED <<devices, idx>>
    /\ UNCHANGED <<op, identity, sessions, cfg, endpoint, kdriver, kdriver0,
                   claimed, connected, avail, size, data, trace>>

\* let Ok(device_desc) = device.device_descriptor() else { continue };
SkipUnreadable ==
    /\ op = "new"
    /\ pc = "open_loop"
    /\ idx <= Len(devices)
    /\ devices[idx].desc = "Err"
    /\ idx' = AfterDescriptorError(idx, Len(devices))
    /\ UNCHANGED <<op, pc, identity, devices, sessions, cfg, endpoint, kdriver,
                   kdriver0, claimed, connected, avail, size, data, result, trace>>

\* the ids differ: next device
SkipOther ==
    /\ op = "new"
    /\ pc = "open_loop"
    /\ idx <= Len(devices)
    /\ devices[idx].desc = "Ok"
    /\ ~Matches(devices[idx], identity)
    /\ idx' = idx + 1
    /\ UNCHANGED <<op, pc, identity, devices, sessions, cfg, endpoint, kdriver,
                   kdriver0, claimed, connected, avail, size, data, result, trace>>

\* if let Ok(handle) = device.open() { result.push(..) }
OpenDevice ==
    /\ op = "new"
    /\ pc = "open_loop"
    /\ idx <= Len(devices)
    /\ devices[idx].desc = "Ok"
    /\ Matches(devices[idx], identity)
    /\ trace' = Append(trace, Call("open", idx, devices[idx].open))
    /\ sessions' = AfterOpen(sessions, idx, devices[idx].open)
    /\ idx' = idx + 1
    /\ UNCHANGED <<op, pc, identity, devices, cfg, endpoint, kdriver, kdriver0,
                   claimed, connected, avail, size, data, result>>

\* Ok(result), then new()'s is_empty test
NewReturn ==
    /\ op = "new"
    /\ pc = "open_loop"
    /\ idx > Len(devices)
    /\ Return(NewResult(sessions))
    /\ UNCHANGED <<op, identity, devices, idx, sessions, cfg, endpoint, kdriver,
                   kdriver0, claimed, connected, avail, size, data, trace>>

NextNew ==
    \/ NewStart
    \/ NewContext
    \/ ListDevices
    \/ SkipUnreadable
    \/ SkipOther
    \/ OpenDevice
    \/ NewReturn

SpecNew == Init /\ [][NextNew]_vars

----------------------------------------------------------------------------
(* The device handle: what libusb answers to each call of get_report.      *)

\* wIndex of the control transfer
ReportIndex == 2

ReportAltCounts == {1, 2}
ReportEpCounts == {0, 1}
ReportIfaceShapes == UNION {[1..m -> ReportEpCounts] : m \in ReportAltCounts}
ReportShapes == UNION {[1..n -> ReportIfaceShapes] : n \in 0..MaxIfaces}
ReportLayouts == {MkConfig(1, s) : s \in ReportShapes}

\* handle.kernel_driver_active(n): Ok(true), Ok(false) or an error
ActiveOutcomes(n) ==
    IF connected
    THEN {IF n \in kdriver THEN "true" ELSE "false", "NotSupported"}
    ELSE {"NoDevice"}

\* handle.detach_kernel_driver(n)
DetachOutcomes(n) == IF connected THEN {"Ok", "Other"} ELSE {"NoDevice"}

\* handle.claim_interface(n): refused while a kernel driver holds n
ClaimOutcomes(n) ==
    IF ~connected THEN {"NoDevice"}
    ELSE IF n \in kdriver THEN {"Busy"}
    ELSE {"Ok", "Access"}

\* handle.read_control(..)
TransferOutcomes == IF connected THEN {"Ok", "Timeout", "Pipe"} ELSE {"NoDevice"}

\* handle.release_interface(n): NotFound for an interface that is not claimed
ReleaseOutcomes(n) ==
    IF n \notin claimed THEN {"NotFound"}
    ELSE IF connected THEN {"Ok", "Other"}
    ELSE {"NoDevice"}

\* let mut data = Vec::new();
NewBuffer == <<>>

\* the data stage of the transfer: the device offers n bytes, the stack
\* writes as many as the slice holds and reports that count
Transferred(buf, n) == Min(n, Len(buf))
WriteReport(buf, n) ==
    [k \in 1..Len(buf) |-> IF k <= Transferred(buf, n) THEN k ELSE buf[k]]

----------------------------------------------------------------------------
(* get_report.                                                             *)

ReportStart ==
    /\ op = "idle"
    /\ \E c \in ReportLayouts :
        \E kd \in SUBSET InterfaceNumbers(c) :
            /\ cfg' = c
            /\ kdriver' = kd
            /\ kdriver0' = kd
    /\ data' = NewBuffer
    /\ op' = "report"
    /\ pc' = "find"
    /\ UNCHANGED <<identity, devices, idx, sessions, endpoint, claimed, connected,
                   avail, size, result, trace>>

\* let endpoint = &self.find_readable_endpoints()?[0];
GetReportFind ==
    /\ op = "report"
    /\ pc = "find"
    /\ \E rd \in ConfigDescriptor(cfg) :
        LET r == FindReadableEndpoints(rd) IN
        /\ trace' = Append(trace, ConfigCall(rd))
        /\ IF r.tag = "Err" THEN Return(r) /\ UNCHANGED endpoint
           ELSE IF r.val = <<>> THEN Return(Panic) /\ UNCHANGED endpoint
           ELSE /\ endpoint' = r.val[1]
                /\ pc' = "detach_query"
                /\ UNCHANGED result
    /\ UNCHANGED <<op, identity, devices, idx, sessions, cfg, kdriver, kdriver0,
                   claimed, connected, avail, size, data>>

\* where control goes when detach_kernel_driver returns Ok(())
AfterDetach == IF op = "report" THEN "claim" ELSE "reattach_query"

\* detach_kernel_driver returning the error of a failed kernel_driver_active query
DetachQueryEscalate ==
    /\ op \in {"report", "roundtrip"}
    /\ pc = "detach_query"
    /\ \E a \in ActiveOutcomes(endpoint.iface) :
        /\ trace' = Append(trace, Call("kernel_driver_active", endpoint.iface,
                                       IF a \in {"true", "false"} THEN "Ok" ELSE a))
        /\ IF a \in {"true", "false"}
           THEN /\ pc' = IF a = "true" THEN "detach_call" ELSE AfterDetach
                /\ UNCHANGED result
           ELSE Return(Err(a))
    /\ UNCHANGED <<op, identity, devices, idx, sessions, cfg, endpoint, kdriver,
                   kdriver0, claimed, connected, avail, size, data>>

\* detach_kernel_driver: match self.handle.kernel_driver_active(endpoint.iface)
DetachQuery ==
    /\ op \in {"report", "roundtrip"}
    /\ pc = "detach_query"
    /\ \E a \in ActiveOutcomes(endpoint.iface) :
        /\ trace' = Append(trace, Call("kernel_driver_active", endpoint.iface,
                                       IF a \in {"true", "false"} THEN "Ok" ELSE a))
        /\ pc' = IF a = "true" THEN "detach_call" ELSE AfterDetach
    /\ UNCHANGED <<op, identity, devices, idx, sessions, cfg, endpoint, kdriver,
                   kdriver0, claimed, connected, avail, size, data, result>>

\* Ok(true) => { self.handle.detach_kernel_driver(endpoint.iface)?; true }
DetachCall ==
    /\ op \in {"report", "roundtrip"}
    /\ pc = "detach_call"
    /\ \E o \in DetachOutcomes(endpoint.iface) :
        /\ trace' = Append(trace, Call("detach_kernel_driver", endpoint.iface, o))
        /\ IF o = "Ok"
           THEN /\ kdriver' = kdriver \ {endpoint.iface}
                /\ pc' = AfterDetach
                /\ UNCHANGED result
           ELSE /\ Return(Err(o))
                /\ UNCHANGED kdriver
    /\ UNCHANGED <<op, identity, devices, idx, sessions, cfg, endpoint, kdriver0,
                   claimed, connected, avail, size, data>>

\* claim_interfaces dropping the error of claim_interface
ClaimInterfacesIgnoreError ==
    /\ op = "report"
    /\ pc = "claim"
    /\ \E rd \in ConfigDescriptor(cfg) :
        IF rd.tag = "Err"
        THEN /\ trace' = Append(trace, ConfigCall(rd))
             /\ Return(Err("NoDevice"))
             /\ UNCHANGED claimed
        ELSE IF rd.val.interfaces = <<>>
        THEN /\ trace' = Append(trace, ConfigCall(rd))
             /\ pc' = "transfer"
             /\ UNCHANGED <<claimed, result>>
        ELSE LET n == InterfaceNumber(rd.val.interfaces[1]) IN
             \E o \in ClaimOutcomes(n) :
                /\ trace' = trace \o <<ConfigCall(rd), Call("claim_interface", n, o)>>
                /\ IF o = "Ok"
                   THEN /\ claimed' = claimed \cup {n}
                        /\ pc' = "transfer"
                        /\ UNCHANGED result
                   ELSE /\ pc' = "transfer"
                        /\ UNCHANGED <<result, claimed>>
    /\ UNCHANGED <<op, identity, devices, idx, sessions, cfg, endpoint, kdriver,
                   kdriver0, connected, avail, size, data>>

\* claim_interfaces: the first interface of configuration 0, then break
ClaimInterfaces ==
    /\ op = "report"
    /\ pc = "claim"
    /\ \E rd \in ConfigDescriptor(cfg) :
        IF rd.tag = "Err"
        THEN /\ trace' = Append(trace, ConfigCall(rd))
             /\ Return(Err("NoDevice"))
             /\ UNCHANGED claimed
        ELSE IF rd.val.interfaces = <<>>
        THEN /\ trace' = Append(trace, ConfigCall(rd))
             /\ pc' = "transfer"
             /\ UNCHANGED <<claimed, result>>
        ELSE LET n == InterfaceNumber(rd.val.interfaces[1]) IN
             \E o \in ClaimOutcomes(n) :
                /\ trace' = trace \o <<ConfigCall(rd), Call("claim_interface", n, o)>>
                /\ IF o = "Ok"
                   THEN /\ claimed' = claimed \cup {n}
                        /\ pc' = "transfer"
                        /\ UNCHANGED result
                   ELSE /\ Return(Err(o))
                        /\ UNCHANGED claimed
    /\ UNCHANGED <<op, identity, devices, idx, sessions, cfg, endpoint, kdriver,
                   kdriver0, connected, avail, size, data>>

\* get_report going on to the cleanup after a failed transfer without keeping its error
ReadControlDeferError ==
    /\ op = "report"
    /\ pc = "transfer"
    /\ \E o \in TransferOutcomes :
        /\ trace' = Append(trace, Call("read_control", ReportIndex, o))
        /\ IF o = "Ok"
           THEN \E n \in 0..MaxReport :
                /\ avail' = n
                /\ size' = Transferred(data, n)
                /\ data' = WriteReport(data, n)
                /\ pc' = "release"
                /\ UNCHANGED result
           ELSE /\ pc' = "release"
                /\ UNCHANGED <<result, avail, size, data>>
    /\ UNCHANGED <<op, identity, devices, idx, sessions, cfg, endpoint, kdriver,
                   kdriver0, claimed, connected>>

\* get_report issuing the transfer again after a timeout
ReadControlRetry ==
    /\ op = "report"
    /\ pc = "transfer"
    /\ \E o \in TransferOutcomes :
        /\ trace' = Append(trace, Call("read_control", ReportIndex, o))
        /\ IF o = "Ok"
           THEN \E n \in 0..MaxReport :
                /\ avail' = n
                /\ size' = Transferred(data, n)
                /\ data' = WriteReport(data, n)
                /\ pc' = "release"
                /\ UNCHANGED result
           ELSE IF o = "Timeout"
           THEN UNCHANGED <<pc, result, avail, size, data>>
           ELSE /\ Return(Err(o))
                /\ UNCHANGED <<avail, size, data>>
    /\ UNCHANGED <<op, identity, devices, idx, sessions, cfg, endpoint, kdriver,
                   kdriver0, claimed, connected>>

\* let size = self.handle.read_control(.., data.as_mut_slice(), 1s)?;
ReadControl ==
    /\ op = "report"
    /\ pc = "transfer"
    /\ \E o \in TransferOutcomes :
        /\ trace' = Append(trace, Call("read_control", ReportIndex, o))
        /\ IF o = "Ok"
           THEN \E n \in 0..MaxReport :
                /\ avail' = n
                /\ size' = Transferred(data, n)
                /\ data' = WriteReport(data, n)
                /\ pc' = "release"
                /\ UNCHANGED result
           ELSE /\ Return(Err(o))
                /\ UNCHANGED <<avail, size, data>>
    /\ UNCHANGED <<op, identity, devices, idx, sessions, cfg, endpoint, kdriver,
                   kdriver0, claimed, connected>>

\* release_interfaces: read configuration descriptor 0
ReleaseInterfaces ==
    /\ op = "report"
    /\ pc = "release"
    /\ \E rd \in ConfigDescriptor(cfg) :
        /\ trace' = Append(trace, ConfigCall(rd))
        /\ IF rd.tag = "Err"
           THEN Return(Err("NoDevice")) /\ UNCHANGED idx
           ELSE /\ idx' = 1
                /\ pc' = "release_loop"
                /\ UNCHANGED result
    /\ UNCHANGED <<op, identity, devices, sessions, cfg, endpoint, kdriver,
                   kdriver0, claimed, connected, avail, size, data>>

\* for iface in config_desc.interfaces() { release_interface(iface.number())? }
ReleaseNext ==
    /\ op = "report"
    /\ pc = "release_loop"
    /\ idx <= Len(cfg.interfaces)
    /\ LET n == InterfaceNumber(cfg.interfaces[idx]) IN
       \E o \in ReleaseOutcomes(n) :
        /\ trace' = Append(trace, Call("release_interface", n, o))
        /\ IF o = "Ok"
           THEN /\ claimed' = claimed \ {n}
                /\ idx' = idx + 1
                /\ UNCHANGED <<pc, result>>
           ELSE /\ Return(Err(o))
                /\ UNCHANGED <<claimed, idx>>
    /\ UNCHANGED <<op, identity, devices, sessions, cfg, endpoint, kdriver,
                   kdriver0, connected, avail, size, data>>

\* release_interfaces returns Ok(())
ReleaseDone ==
    /\ op = "report"
    /\ pc = "release_loop"
    /\ idx > Len(cfg.interfaces)
    /\ pc' = "reattach_query"
    /\ UNCHANGED <<op, identity, devices, idx, sessions, cfg, endpoint, kdriver,
                   kdriver0, claimed, connected, avail, size, data, result, trace>>

\* reattach_kernel_driver taking every answer but Ok(false) for an active driver
ReattachQueryUnlessFalse ==
    /\ op \in {"report", "roundtrip"}
    /\ pc = "reattach_query"
    /\ \E a \in ActiveOutcomes(endpoint.iface) :
        /\ trace' = Append(trace, Call("kernel_driver_active", endpoint.iface,
                                       IF a \in {"true", "false"} THEN "Ok" ELSE a))
        /\ IF a # "false"
           THEN pc' = "reattach_call" /\ UNCHANGED result
           ELSE Return(Ok(data))
    /\ UNCHANGED <<op, identity, devices, idx, sessions, cfg, endpoint, kdriver,
                   kdriver0, claimed, connected, avail, size, data>>

\* reattach_kernel_driver: match self.handle.kernel_driver_active(endpoint.iface);
\* on anything but Ok(true) it returns Ok(()) and get_report returns Ok(data)
ReattachQuery ==
    /\ op \in {"report", "roundtrip"}
    /\ pc = "reattach_query"
    /\ \E a \in ActiveOutcomes(endpoint.iface) :
        /\ trace' = Append(trace, Call("kernel_driver_active", endpoint.iface,
                                       IF a \in {"true", "false"} THEN "Ok" ELSE a))
        /\ IF a = "true"
           THEN pc' = "reattach_call" /\ UNCHANGED result
           ELSE Return(Ok(data))
    /\ UNCHANGED <<op, identity, devices, idx, sessions, cfg, endpoint, kdriver,
                   kdriver0, claimed, connected, avail, size, data>>

\* Ok(true) => { self.handle.detach_kernel_driver(endpoint.iface)?; true }
ReattachCall ==
    /\ op \in {"report", "roundtrip"}
    /\ pc = "reattach_call"
    /\ \E o \in DetachOutcomes(endpoint.iface) :
        /\ trace' = Append(trace, Call("detach_kernel_driver", endpoint.iface, o))
        /\ IF o = "Ok"
           THEN /\ kdriver' = kdriver \ {endpoint.iface}
                /\ Return(Ok(data))
           ELSE /\ Return(Err(o))
                /\ UNCHANGED kdriver
    /\ UNCHANGED <<op, identity, devices, idx, sessions, cfg, endpoint, kdriver0,
                   claimed, connected, avail, size, data>>

\* the device is unplugged while get_report is running
Disconnect ==
    /\ op = "report"
    /\ pc \notin {"idle", "done"}
    /\ connected
    /\ connected' = FALSE
    /\ UNCHANGED <<op, pc, identity, devices, idx, sessions, cfg, endpoint, kdriver,
                   kdriver0, claimed, avail, size, data, result, trace>>

----------------------------------------------------------------------------
(* detach_kernel_driver(&endpoint) followed at once by                     *)
(* reattach_kernel_driver(&endpoint), on an endpoint the walk returned.    *)

RoundTripStart ==
    /\ op = "idle"
    /\ \E c \in ReportLayouts :
        LET eps == WalkInterfaces(<<>>, c, 1) IN
        \E kd \in SUBSET InterfaceNumbers(c), e \in 1..Len(eps) :
            /\ cfg' = c
            /\ endpoint' = eps[e]
            /\ kdriver' = kd
            /\ kdriver0' = kd
    /\ op' = "roundtrip"
    /\ pc' = "detach_query"
    /\ UNCHANGED <<identity, devices, idx, sessions, claimed, connected, avail,
                   size, data, result, trace>>

NextReport ==
    \/ ReportStart
    \/ GetReportFind
    \/ DetachQuery
    \/ DetachCall
    \/ ClaimInterfaces
    \/ ReadControl
    \/ ReleaseInterfaces
    \/ ReleaseNext
    \/ ReleaseDone
    \/ ReattachQuery
    \/ ReattachCall
    \/ Disconnect
    \/ RoundTripStart

\* the operations on one session
NextSession == NextFind \/ NextReport

SpecSession == Init /\ [][NextSession]_vars

Next == NextNew \/ NextSession

Spec == Init /\ [][Next]_vars

----------------------------------------------------------------------------
(* Properties.                                                             *)

Done(o) == op = o /\ pc = "done"

\* positions of the trace holding a call of the given name
Calls(name) == {k \in 1..Len(trace) : trace[k].call = name}

\* positions of the trace holding a call on the device handle
HandleCallsIssued == {k \in 1..Len(trace) : trace[k].call \in HandleCalls}

TransferFailed == \E k \in Calls("read_control") : ~trace[k].ok

NoCallFailed == \A k \in 1..Len(trace) : trace[k].ok

\* C1: when get_report found its endpoint, passed the detach step, claimed
\* the interface and the control transfer then failed, release_interfaces
\* and reattach_kernel_driver have run (their calls follow the transfer in
\* the trace) by the time get_report returns, and no interface is claimed.
C1_CleanupOnTransferFailure ==
    (Done("report") /\ TransferFailed) =>
        /\ claimed = {}
        /\ \E t \in Calls("read_control") :
            /\ \E k \in Calls("release_interface") : k > t
            /\ \E k \in Calls("kernel_driver_active") : k > t

\* C2: when get_report succeeds, the byte sequence it returns is as long as
\* the number of bytes the device delivered in the data stage of the
\* transfer (a device sending 2 bytes yields a result of length 2, not 0).
C2_SurfacedByteCount ==
    (Done("report") /\ result.tag = "Ok") => Len(result.val) = avail

\* C3: on a device whose configuration 0 declares no endpoint, get_report
\* returns an error value (NoEndpoints, or NoDevice when the descriptor
\* could not be read at all), it does not abort, and it issues no call on
\* the handle.
C3_NoEndpointsError ==
    (Done("report") /\ WalkInterfaces(<<>>, cfg, 1) = <<>>) =>
        /\ result \in {Err("NoEndpoints"), Err("NoDevice")}
        /\ HandleCallsIssued = {}

\* C4: detach_kernel_driver followed at once by reattach_kernel_driver, with
\* no call failing, leaves the kernel driver bound to exactly the interfaces
\* it was bound to before.
C4_DriverRoundTrip ==
    (Done("roundtrip") /\ NoCallFailed /\ result.tag = "Ok") => kdriver = kdriver0

\* C5: every session open_devices holds or returns is for a device whose
\* descriptor was read and whose vendor id and product id both equal the
\* identity, and open() is never called on any other device.
C5_OnlyMatchingOpened ==
    op = "new" =>
        /\ \A k \in 1..Len(sessions) :
            /\ devices[sessions[k]].desc = "Ok"
            /\ devices[sessions[k]].vid = identity[1]
            /\ devices[sessions[k]].pid = identity[2]
        /\ \A k \in Calls("open") :
            /\ devices[trace[k].iface].desc = "Ok"
            /\ devices[trace[k].iface].vid = identity[1]
            /\ devices[trace[k].iface].pid = identity[2]
        /\ (pc = "done" /\ result.tag = "Ok") => result.val = sessions

\* an openable device that differs from the identity in one id only
NearMiss(d) ==
    /\ d.desc = "Ok"
    /\ d.open = "Ok"
    /\ (d.vid = identity[1]) # (d.pid = identity[2])

C5_Witness ==
    /\ Done("new")
    /\ result.tag = "Ok"
    /\ \E i \in 1..Len(devices) : NearMiss(devices[i])

\* C6 as claimed: Falcon8::new returns NotFound exactly when no session was
\* opened, and the non-empty list whenever one was.
C6_NotFoundIffNoSession ==
    Done("new") =>
        /\ (result = Err("NotFound")) <=> (sessions = <<>>)
        /\ sessions # <<>> => result = Ok(sessions)

\* C6 amended: once the context is created and the device list obtained
\* (idx > 0), Falcon8::new returns NotFound exactly when no session was
\* opened and the non-empty list otherwise; when Context::new or
\* context.devices fails, it returns that failure, with no session opened.
C6_NotFoundIffNoSessionListed ==
    Done("new") =>
        IF idx > 0
        THEN /\ (result = Err("NotFound")) <=> (sessions = <<>>)
             /\ sessions # <<>> => result = Ok(sessions)
        ELSE /\ sessions = <<>>
             /\ result.tag = "Err"
             /\ result.err \in ContextErrors \cup ListErrors

\* a matching device was there, but none could be opened
C6_Witness ==
    /\ Done("new")
    /\ sessions = <<>>
    /\ result = Err("NotFound")
    /\ \E i \in 1..Len(devices) :
        /\ devices[i].desc = "Ok"
        /\ devices[i].vid = identity[1]
        /\ devices[i].pid = identity[2]

\* device i yields a descriptor, matches the identity and opens
Usable(i) ==
    /\ devices[i].desc = "Ok"
    /\ devices[i].vid = identity[1]
    /\ devices[i].pid = identity[2]
    /\ devices[i].open = "Ok"

UsableDevices ==
    SelectSeq([i \in 1..Len(devices) |-> i], LAMBDA i : Usable(i))

\* C7: once the device list is obtained, the sessions open_devices returns
\* are exactly the devices that yield a descriptor, match and open, in
\* enumeration order, wherever the failing devices sit; if there is one,
\* the result is that list.
C7_FailuresSkipped ==
    (Done("new") /\ idx > 0) =>
        /\ sessions = UsableDevices
        /\ UsableDevices # <<>> => result = Ok(UsableDevices)

\* a device whose descriptor cannot be read comes first, a matching one that
\* fails to open is in the list, and a later device is still returned
C7_Witness ==
    /\ Done("new")
    /\ result.tag = "Ok"
    /\ Len(devices) >= 2
    /\ devices[1].desc = "Err"
    /\ \E i \in 1..Len(devices) :
        /\ devices[i].desc = "Ok"
        /\ devices[i].vid = identity[1]
        /\ devices[i].pid = identity[2]
        /\ devices[i].open = "Err"

\* number of endpoint descriptors of the first m alternate settings of
\* interface i, and of the first n interfaces
RECURSIVE EndpointsInSettings(_, _)
EndpointsInSettings(iface, m) ==
    IF m = 0 THEN 0
    ELSE EndpointsInSettings(iface, m - 1) + Len(iface.descriptors[m].endpoints)

RECURSIVE EndpointsInInterfaces(_, _)
EndpointsInInterfaces(c, n) ==
    IF n = 0 THEN 0
    ELSE EndpointsInInterfaces(c, n - 1)
         + EndpointsInSettings(c.interfaces[n], Len(c.interfaces[n].descriptors))

\* C8: find_readable_endpoints returns one record per endpoint descriptor of
\* configuration 0: endpoint k of alternate setting j of interface i sits at
\* the position given by the number of endpoint descriptors declared before
\* it, and carries the configuration value, the interface number and setting
\* number of its setting, and its address.
C8_EndpointsInDeclaredOrder ==
    (Done("find") /\ result.tag = "Ok") =>
        /\ Len(result.val) = EndpointsInInterfaces(cfg, Len(cfg.interfaces))
        /\ \A i \in 1..Len(cfg.interfaces) :
            \A j \in 1..Len(cfg.interfaces[i].descriptors) :
                \A k \in 1..Len(cfg.interfaces[i].descriptors[j].endpoints) :
                    LET d == cfg.interfaces[i].descriptors[j]
                        at == EndpointsInInterfaces(cfg, i - 1)
                              + EndpointsInSettings(cfg.interfaces[i], j - 1) + k
                    IN  /\ result.val[at].config = cfg.number
                        /\ result.val[at].iface = d.interface_number
                        /\ result.val[at].setting = d.setting_number
                        /\ result.val[at].address = d.endpoints[k]

\* a walk over two interfaces, the first without endpoints in its first
\* setting, that returned at least three endpoints
C8_Witness ==
    /\ Done("find")
    /\ result.tag = "Ok"
    /\ Len(cfg.interfaces) = 2
    /\ cfg.interfaces[1].descriptors[1].endpoints = <<>>
    /\ Len(cfg.interfaces[2].descriptors) = 2
    /\ Len(result.val) >= 3

\* C9: when configuration descriptor 0 cannot be read, whatever the cause,
\* find_readable_endpoints returns NoDevice, and a get_report that meets
\* this failure returns it having issued no call on the handle.
C9_UnreadableConfigIsNoDevice ==
    (/\ op \in {"find", "report"}
     /\ pc = "done"
     /\ trace[1].call = "config_descriptor"
     /\ ~trace[1].ok) =>
        /\ result = Err("NoDevice")
        /\ HandleCallsIssued = {}
        /\ Len(trace) = 1

C9_Witness ==
    /\ Done("report")
    /\ trace[1].call = "config_descriptor"
    /\ trace[1].err = "Io"
    /\ result.tag = "Err"

\* C10: when the device is unplugged while get_report runs on a device that
\* has an endpoint, get_report returns an error, never Ok.
C10_DisconnectIsAnError ==
    (Done("report") /\ ~connected /\ endpoint # NoEndpoint) => result.tag = "Err"

\* get_report has chosen its endpoint
EndpointChosen == op = "report" /\ endpoint # NoEndpoint

\* C11: in a get_report run on an endpoint whose interface had no kernel
\* driver bound at the detach step, no detach_kernel_driver call is issued
\* at any step, and the interface is still unbound, at return included.
C11_NoDriverNoDetach ==
    (EndpointChosen /\ endpoint.iface \notin kdriver0) =>
        /\ Calls("detach_kernel_driver") = {}
        /\ endpoint.iface \notin kdriver

\* a successful run on an unbound interface that went through both queries
C11_Witness ==
    /\ Done("report")
    /\ result.tag = "Ok"
    /\ endpoint.iface \notin kdriver0
    /\ Cardinality(Calls("kernel_driver_active")) = 2

\* the query of the detach step (the second call of a get_report run) failed,
\* or answered that no driver is active
DetachQueryNegative ==
    /\ EndpointChosen
    /\ Len(trace) >= 2
    /\ trace[2].call = "kernel_driver_active"
    /\ (~trace[2].ok \/ endpoint.iface \notin kdriver0)

\* C12: when the kernel_driver_active query of the detach step fails or
\* answers false, detach_kernel_driver issues no detach and returns Ok:
\* get_report is at its claim step, whose descriptor read is the next call.
C12_QueryFailureIsNoDriver ==
    DetachQueryNegative =>
        /\ pc # "detach_call"
        /\ Len(trace) = 2 => (pc = "claim" /\ result = NoResult)
        /\ Len(trace) >= 3 => trace[3].call = "config_descriptor"

\* the query failed on an interface a driver holds, and the claim was issued
C12_Witness ==
    /\ DetachQueryNegative
    /\ ~trace[2].ok
    /\ endpoint.iface \in kdriver0
    /\ Calls("claim_interface") # {}

\* the detach step of this run detached the kernel driver
DetachedByUs ==
    \E d \in Calls("detach_kernel_driver") :
        /\ trace[d].ok
        /\ \A c \in Calls("claim_interface") : d < c

\* C13: when get_report detached the kernel driver in its detach step and
\* the device stays plugged in, the driver is bound to the interface again
\* when get_report returns, whatever the outcome of the later steps.
C13_DriverRestoredAtReturn ==
    (Done("report") /\ connected /\ DetachedByUs) => endpoint.iface \in kdriver

\* the successful claims of interface n, and the releases issued on it
ClaimsOf(n) == {k \in Calls("claim_interface") : trace[k].iface = n /\ trace[k].ok}
ReleasesOf(n) == {k \in Calls("release_interface") : trace[k].iface = n}

\* C14: when get_report returns, every interface it claimed was released by
\* exactly one release call issued after the claim, no release was issued on
\* an interface it had not claimed, only the first interface of
\* configuration 0 was claimed, and no interface is still claimed.
C14_ClaimReleasePairing ==
    Done("report") =>
        /\ \A n \in InterfaceNumbers(cfg) :
            /\ ClaimsOf(n) # {} => Cardinality(ReleasesOf(n)) = 1
            /\ ClaimsOf(n) = {} => ReleasesOf(n) = {}
            /\ \A r \in ReleasesOf(n) : \E c \in ClaimsOf(n) : c < r
        /\ \A c \in Calls("claim_interface") :
            trace[c].iface = InterfaceNumber(cfg.interfaces[1])
        /\ claimed = {}

\* the calls of a get_report run that name an interface of the device
InterfaceCalls ==
    {k \in 1..Len(trace) :
        trace[k].call \in {"kernel_driver_active", "detach_kernel_driver",
                           "claim_interface", "release_interface"}}

\* C19: in a get_report run the kernel-driver query and detach, the claim,
\* the releases and the reattach all name one and the same interface.
C19_SameInterface ==
    op = "report" =>
        \A j, k \in InterfaceCalls : trace[j].iface = trace[k].iface

\* the kernel_driver_active queries of the reattach step: all but the first
ReattachQueries ==
    {q \in Calls("kernel_driver_active") :
        \E p \in Calls("kernel_driver_active") : p < q}

\* C15: in a get_report run the control transfer is issued only after a
\* successful claim that no release has followed, and in a state that holds
\* the claim; the claim is issued only after the detach step's query and
\* never after a failed detach; releases and the reattach query are issued
\* only after the transfer; after a failed claim no transfer is issued.
C15_StepOrdering ==
    op = "report" =>
        /\ \A t \in Calls("read_control") :
            /\ \E c \in Calls("claim_interface") : c < t /\ trace[c].ok
            /\ \A r \in Calls("release_interface") : t < r
        /\ pc = "transfer" => claimed # {}
        /\ \A c \in Calls("claim_interface") :
            /\ \E q \in Calls("kernel_driver_active") : q < c
            /\ \A d \in Calls("detach_kernel_driver") : d < c => trace[d].ok
        /\ \A r \in Calls("release_interface") \cup ReattachQueries :
            \E t \in Calls("read_control") : t < r
        /\ (\E c \in Calls("claim_interface") : ~trace[c].ok) =>
            Calls("read_control") = {}

\* a complete run: detach, claim, transfer, release, reattach query
C15_Witness ==
    /\ Done("report")
    /\ result.tag = "Ok"
    /\ Calls("detach_kernel_driver") # {}
    /\ Calls("release_interface") # {}
    /\ ReattachQueries # {}

\* the calls that make a step of get_report fail: any failed call but a
\* kernel_driver_active query, whose failure counts as "no driver"
StepFailures ==
    {k \in 1..Len(trace) : ~trace[k].ok /\ trace[k].call # "kernel_driver_active"}

FirstStepFailure == CHOOSE k \in StepFailures : \A j \in StepFailures : k <= j

\* the error a step returns for its failed call
StepError(k) ==
    IF trace[k].call = "config_descriptor" THEN "NoDevice" ELSE trace[k].err

\* C16: when get_report returns an error, it is the error of the first step
\* that failed, so a failure of release or reattach is returned only when no
\* earlier step failed; when it returns Ok, no step failed.
C16_FirstErrorReturned ==
    Done("report") =>
        /\ result.tag = "Err" =>
            /\ StepFailures # {}
            /\ result.err = StepError(FirstStepFailure)
        /\ result.tag = "Ok" => StepFailures = {}

\* a release failure is the returned error, after a transfer that succeeded
C16_Witness ==
    /\ Done("report")
    /\ result = Err("Other")
    /\ trace[Len(trace)].call = "release_interface"
    /\ \E t \in Calls("read_control") : trace[t].ok

\* C17: a get_report run issues read_control, detach_kernel_driver and
\* claim_interface at most once each; a failed or timed-out transfer is the
\* last call of the run and its error is what get_report returns.
C17_NoRetries ==
    op = "report" =>
        /\ Cardinality(Calls("read_control")) <= 1
        /\ Cardinality(Calls("detach_kernel_driver")) <= 1
        /\ Cardinality(Calls("claim_interface")) <= 1
        /\ TransferFailed =>
            /\ pc = "done"
            /\ trace[Len(trace)].call = "read_control"
            /\ result = Err(trace[Len(trace)].err)
            /\ result.err \in {"Timeout", "Pipe", "NoDevice"}

C17_Witness ==
    /\ Done("report")
    /\ TransferFailed
    /\ result = Err("Timeout")

\* C18: a failed detach_kernel_driver call in the detach step (the third
\* call of a get_report run) ends the run with that error before any claim
\* or transfer; and in a run that detached the driver, so that the reattach
\* step has a driver to bind again, a failure of the reattach step's call
\* into the USB stack makes get_report return an error, not Ok.
C18_DetachReattachFailuresReported ==
    /\ (/\ op = "report"
        /\ Len(trace) >= 3
        /\ trace[3].call = "detach_kernel_driver"
        /\ ~trace[3].ok) =>
            /\ pc = "done"
            /\ result = Err(trace[3].err)
            /\ Len(trace) = 3
    /\ (/\ Done("report")
        /\ DetachedByUs
        /\ \E q \in ReattachQueries : ~trace[q].ok) =>
            result.tag = "Err"

====
